---- MODULE Spec2Model ----
(***************************************************************************)
(* Model of the rsky-relay ingest / validate pipeline:                     *)
(*   validator::Manager  (src/rsky-relay/src/validator/manager.rs)         *)
(*   validator::Resolver (src/rsky-relay/src/validator/resolver.rs)        *)
(* Strings are modelled as tuples of tokens so that prefix tests, slicing  *)
(* and byte-wise key order are computed rather than assumed.               *)
(***************************************************************************)
EXTENDS Integers, Sequences, FiniteSets, Bags, TLC

\* ------------------------------------------------------------------ bounds
MaxCursor == 2      \* firehose appends explored
MaxSeq == 2         \* upstream sequence numbers 1..MaxSeq
MaxTime == 2        \* event / ledger timestamps 1..MaxTime
MaxRev == 2         \* repo revisions 1..MaxRev
MaxQueue == 1       \* queue records explored
MaxFutures == 2     \* outstanding HTTP fetches explored
MaxRuns == 1        \* restarts of the validator explored
CapacityCache == 1  \* config::CAPACITY_CACHE (value chosen for the model)
NumWorkers == 2     \* publisher worker threads
MaxSlots == 2       \* slots of Worker.connections explored
MaxConns == 2       \* subscriber sockets open at once, over all workers
BufCeiling == 1     \* frames a connection buffers before its send fails
MaxReplay == 2      \* queue records of one DID replayed by one scan_did

\* ------------------------------------------------------- program constants
PLC_PAGE == 1000    \* resolver.rs: "export?count=1000", count == 1000
UNIX_EPOCH == 0     \* DateTime::UNIX_EPOCH, below every event time

\* --------------------------------------------------------------- universes
Keys == {"k1", "k2"}
Seqs == 1..MaxSeq
Times == 1..MaxTime
Revs == 1..MaxRev

\* DIDs as token strings: <<method prefix (8 bytes), suffix tokens...>>
DidW == <<"did:web:", "w">>          \* did:web:w
DidWX == <<"did:web:", "w", "x">>    \* did:web:wx   (did:web:w is a prefix)
DidP == <<"did:plc:", "w">>          \* did:plc:w    (same suffix as did:web:w)
DidK == <<"did:key:", "k">>          \* neither did:plc: nor did:web:
DidB == <<"did:web:", "%FF">>        \* did:web whose url-decoding fails
DIDs == {DidW, DidWX, DidP, DidK, DidB}

\* Option<T>: <<>> is None, <<v>> is Some(v)
None == <<>>
Some(v) == <<v>>
IsSome(o) == Len(o) = 1
Unwrap(o) == o[1]

\* ------------------------------------------------------------ string model
\* did.strip_prefix(p): the rest of the string after p, or None
StripPrefix(did, p) == IF Len(did) >= 1 /\ did[1] = p THEN Some(Tail(did)) ELSE None

\* did.starts_with(p)
StartsWith(did, p) == Len(did) >= 1 /\ did[1] = p

\* &did[8..]: every method prefix above is 8 bytes long
Slice8(did) == Tail(did)

\* byte-wise prefix test used by PartitionHandle::prefix
IsPrefix(p, s) == Len(p) <= Len(s) /\ SubSeq(s, 1, Len(p)) = p

\* urlencoding::decode: Err on bytes that are not UTF-8 after decoding
UrlDecode(web) == IF \E i \in 1..Len(web) : web[i] = "%FF" THEN None ELSE Some(web)

\* decimal rendering of an integer ({seq} in format!), digits as tokens
Digit(n) == CASE n = 0 -> "0" [] n = 1 -> "1" [] n = 2 -> "2" [] n = 3 -> "3"
              [] n = 4 -> "4" [] n = 5 -> "5" [] n = 6 -> "6" [] n = 7 -> "7"
              [] n = 8 -> "8" [] n = 9 -> "9"

RECURSIVE Decimal(_)
Decimal(n) == IF n < 10 THEN <<Digit(n)>> ELSE Decimal(n \div 10) \o <<Digit(n % 10)>>

\* byte order of the tokens that occur in keys
Ord(t) == CASE t = "%FF" -> 37
            [] t = "0" -> 48 [] t = "1" -> 49 [] t = "2" -> 50 [] t = "3" -> 51
            [] t = "4" -> 52 [] t = "5" -> 53 [] t = "6" -> 54 [] t = "7" -> 55
            [] t = "8" -> 56 [] t = "9" -> 57
            [] t = ">" -> 62
            [] t = "h1" -> 104 [] t = "h2" -> 105
            [] t = "k" -> 107 [] t = "w" -> 119 [] t = "x" -> 120
            [] t = "did:key:" -> 1001 [] t = "did:plc:" -> 1002 [] t = "did:web:" -> 1003

\* lexicographic (byte-wise) order of the KV store's keys
RECURSIVE KeyLess(_, _)
KeyLess(a, b) ==
    IF Len(b) = 0 THEN FALSE
    ELSE IF Len(a) = 0 THEN TRUE
    ELSE IF Ord(Head(a)) # Ord(Head(b)) THEN Ord(Head(a)) < Ord(Head(b))
    ELSE KeyLess(Tail(a), Tail(b))

\* variant: the key without the upstream seq
QueueKeyNoSeq(did, host, seq) == did \o <<">", host>>

\* format!("{did}>{host}>{seq}")
QueueKey(did, host, seq) == did \o <<">", host, ">">> \o Decimal(seq)

\* index of the first '>' of a key
RECURSIVE FirstGt(_, _)
FirstGt(k, i) == IF i > Len(k) THEN 0 ELSE IF k[i] = ">" THEN i ELSE FirstGt(k, i + 1)

\* key.split('>').next()
KeyDid(k) == SubSeq(k, 1, FirstGt(k, 1) - 1)

\* key.split('>').nth(1)
KeyHost(k) == k[FirstGt(k, 1) + 1]

\* the keys of a set in the store's iteration order
RECURSIVE SortKeys(_)
SortKeys(S) ==
    IF S = {} THEN <<>>
    ELSE LET m == CHOOSE x \in S : \A y \in S \ {x} : KeyLess(x, y)
         IN  <<m>> \o SortKeys(S \ {m})

\* variant: the new value is taken as it comes
MaxUnclamped(a, b) == a

Max(a, b) == IF a >= b THEN a ELSE b

\* ---------------------------------------------------------- types::Cursor
\* Cursor::next: returns the current value and then increments
CursorNext(c) == [ret |-> c, cursor |-> c + 1]

\* ------------------------------------------------------------------- state
VARIABLES
    DO_PLC_EXPORT,  \* config::DO_PLC_EXPORT, fixed for the process
    SHUTDOWN,       \* crate::SHUTDOWN
    pc,             \* validator: "running" | "stopped"
    hosts,          \* Manager.hosts : hostname -> [seq, time]
    repos,          \* Manager.repos : did -> [rev, data]
    queue,          \* "queue" partition : key -> raw frame
    firehose,       \* "firehose" partition : cursor -> [cur, host, seq, via]
    cursor,         \* the Cursor local of Manager::run
    resolver,       \* Resolver : [cache, inflight, futures, after, elapsed]
    plcKeys,        \* plc_directory.db, view plc_keys : did -> row
    plcLast,        \* plc_directory.db, newest plc_operations.created_at
    hostsDb,        \* relay.db, table hosts : hostname -> cursor
    reposDb,        \* "repos" partition : did -> [rev, data]
    runs,           \* history: number of restarts so far
    runStart,       \* history: last firehose key written before this run
    writes,         \* history: the keys passed to firehose.insert, in order
    lastOp,         \* history: what the last step did
    workers,        \* publisher: worker id -> [pc, seq, connections, next_idx, poll]
    lastPub         \* history: what the last step of a worker did

pubVars == <<workers, lastPub>>

vars == <<DO_PLC_EXPORT, SHUTDOWN, pc, hosts, repos, queue, firehose, cursor,
          resolver, plcKeys, plcLast, hostsDb, reposDb, runs, runStart, writes, lastOp,
          workers, lastPub>>

\* -------------------------------------------------------- resolver: parsing
\* raw (endpoint, key) pairs as they occur in DID documents and plc_keys rows
Https(h) == Some([scheme |-> "https://", host |-> h])
DocBodies ==
    { [endpoint |-> Https("h1"), key |-> Some("k1")],
      [endpoint |-> Https("h2"), key |-> Some("k1")],
      [endpoint |-> None,        key |-> Some("k2")],
      [endpoint |-> Https("h1"), key |-> None] }

\* parse_key_endpoint: None without a decodable key of the right length;
\* pds is the endpoint without "https://", None when that prefix is missing
ParseKeyEndpoint(endpoint, key) ==
    IF IsSome(key) /\ Unwrap(key) \in Keys
    THEN Some([pds |-> IF IsSome(endpoint) /\ Unwrap(endpoint).scheme = "https://"
                       THEN Some(Unwrap(endpoint).host) ELSE None,
               key |-> Unwrap(key)])
    ELSE None

\* parse_did_doc: (doc.id, parse_key_endpoint(..)?) or None
ParseDidDoc(bytes) ==
    IF bytes.json = "doc" /\ IsSome(ParseKeyEndpoint(bytes.body.endpoint, bytes.body.key))
    THEN Some([did |-> bytes.id,
               entry |-> Unwrap(ParseKeyEndpoint(bytes.body.endpoint, bytes.body.key))])
    ELSE None

\* ---------------------------------------------------------- resolver: cache
\* LruCache, most recently used first
CacheIndex(cache, did) ==
    IF \E i \in 1..Len(cache) : cache[i].did = did
    THEN CHOOSE i \in 1..Len(cache) : cache[i].did = did ELSE 0

CacheRemove(cache, i) == SubSeq(cache, 1, i - 1) \o SubSeq(cache, i + 1, Len(cache))

\* LruCache::pop
CachePop(cache, did) ==
    IF CacheIndex(cache, did) = 0 THEN cache ELSE CacheRemove(cache, CacheIndex(cache, did))

\* LruCache::get: a hit becomes the most recently used entry
CacheGet(cache, did) ==
    LET i == CacheIndex(cache, did)
    IN  IF i = 0 THEN cache ELSE <<cache[i]>> \o CacheRemove(cache, i)

\* LruCache::put: replace or insert as most recently used, evict the oldest
CachePut(cache, did, entry) ==
    LET c == <<[did |-> did, pds |-> entry.pds, key |-> entry.key]>> \o CachePop(cache, did)
    IN  IF Len(c) > CapacityCache THEN SubSeq(c, 1, CapacityCache) ELSE c

\* LruCache::peek_mru mapped to (endpoint, key)
PeekMru(cache) ==
    IF Len(cache) = 0 THEN None ELSE Some([pds |-> cache[1].pds, key |-> cache[1].key])

\* ------------------------------------------------------ resolver: requests
DidFuture(q, via) == [kind |-> "Did", query |-> q, via |-> via, after |-> 0]
ExportFuture(after) == [kind |-> "Export", query |-> <<>>, via |-> "plc", after |-> after]

\* Resolver::send_req
SendReq(r, web, plc) ==
    IF IsSome(web)
    THEN [r EXCEPT !.futures = @ (+) SetToBag({DidFuture(Unwrap(web), "web")})]
    ELSE IF IsSome(plc)
    THEN [r EXCEPT !.futures = @ (+) SetToBag({DidFuture(Unwrap(plc), "plc")})]
    ELSE IF IsSome(r.after)
    THEN [r EXCEPT !.after = None, !.elapsed = FALSE,
                   !.futures = @ (+) SetToBag({ExportFuture(Unwrap(r.after))})]
    ELSE r

\* variant: the DID is marked inflight only once its request is sent
RequestWhenSent(r, did) ==
    LET r1 == [r EXCEPT !.inflight = @ \cup {did}]
    IN  IF IsSome(StripPrefix(did, "did:plc:"))
        THEN SendReq(r1, None,
                     IF DO_PLC_EXPORT THEN None ELSE StripPrefix(did, "did:plc:"))
        ELSE IF IsSome(StripPrefix(did, "did:web:"))
        THEN IF IsSome(UrlDecode(Unwrap(StripPrefix(did, "did:web:"))))
             THEN SendReq(r1, UrlDecode(Unwrap(StripPrefix(did, "did:web:"))), None)
             ELSE r
        ELSE r

\* Resolver::request
Request(r, did) ==
    LET r1 == [r EXCEPT !.inflight = @ \cup {did}]
    IN  IF IsSome(StripPrefix(did, "did:plc:"))
        THEN SendReq(r1, None,
                     IF DO_PLC_EXPORT THEN None ELSE StripPrefix(did, "did:plc:"))
        ELSE IF IsSome(StripPrefix(did, "did:web:"))
        THEN IF IsSome(UrlDecode(Unwrap(StripPrefix(did, "did:web:"))))
             THEN SendReq(r1, UrlDecode(Unwrap(StripPrefix(did, "did:web:"))), None)
             ELSE r1
        ELSE [r1 EXCEPT !.inflight = @ \ {did}]

\* Resolver::expire
Expire(r, did, time) ==
    IF IsSome(r.after) /\ Unwrap(r.after) < time
    THEN Request([r EXCEPT !.cache = CachePop(@, did)], did)
    ELSE r

\* Resolver::query_db: a usable plc_keys row is put into the cache
QueryDb(r, db, did) ==
    IF did \in DOMAIN db /\ IsSome(ParseKeyEndpoint(db[did].endpoint, db[did].key))
    THEN [r |-> [r EXCEPT !.cache = CachePut(@, did,
                        Unwrap(ParseKeyEndpoint(db[did].endpoint, db[did].key)))],
          hit |-> TRUE]
    ELSE [r |-> r, hit |-> FALSE]

\* Resolver::resolve: [r |-> resolver afterwards, res |-> Option (pds, key)]
Resolve(r, db, did) ==
    IF did \in r.inflight THEN [r |-> r, res |-> None]
    ELSE IF CacheIndex(r.cache, did) # 0
    THEN LET c == CacheGet(r.cache, did)
         IN  [r |-> [r EXCEPT !.cache = c], res |-> PeekMru(c)]
    ELSE IF QueryDb(r, db, did).hit
    THEN [r |-> QueryDb(r, db, did).r, res |-> PeekMru(QueryDb(r, db, did).r.cache)]
    ELSE [r |-> Request(r, did), res |-> None]

\* Resolver::new
NewResolver(last) ==
    [cache |-> <<>>, inflight |-> {}, futures |-> EmptyBag,
     after |-> Some(last), elapsed |-> TRUE]

\* ----------------------------------------------------------- resolver: poll
\* a completed Query::Did: [r |-> resolver afterwards, dids |-> returned vector]
PollDid(r, f, resp) ==
    LET r0 == [r EXCEPT !.futures = @ (-) SetToBag({f})]
    IN  IF ~resp.ok THEN [r |-> r0, dids |-> <<>>]
        ELSE IF ~IsSome(ParseDidDoc(resp.bytes)) THEN [r |-> r0, dids |-> <<>>]
        ELSE LET doc == Unwrap(ParseDidDoc(resp.bytes))
             IN  IF f.query # Slice8(doc.did) THEN [r |-> r0, dids |-> <<>>]
                 ELSE [r |-> [r0 EXCEPT !.inflight = @ \ {doc.did},
                                        !.cache = CachePut(@, doc.did, doc.entry)],
                       dids |-> <<doc.did>>]

\* the lines of an export batch, in order: rows go to the mirror, `after`
\* follows created_at, inflight DIDs of the batch are collected
RECURSIVE ExportRows(_, _)
ExportRows(st, rows) ==
    IF rows = <<>> THEN st
    ELSE LET row == Head(rows)
             hit == row.did \in st.r.inflight
         IN  ExportRows(
                 [r |-> [st.r EXCEPT !.after = Some(row.createdAt),
                                     !.inflight = @ \ {row.did}],
                  db |-> [d \in DOMAIN st.db \cup {row.did} |->
                             IF d = row.did THEN row.body ELSE st.db[d]],
                  last |-> Max(st.last, row.createdAt),
                  dids |-> IF hit THEN Append(st.dids, row.did) ELSE st.dids],
                 Tail(rows))

\* HashSet::extract_if in iteration order
RECURSIVE SetToSeq(_)
SetToSeq(S) == IF S = {} THEN <<>>
               ELSE LET x == CHOOSE x \in S : TRUE IN <<x>> \o SetToSeq(S \ {x})

\* a completed Query::Export whose short page drains every inflight DID
PollExportDrainAll(r, db, last, f, resp) ==
    LET r0 == [r EXCEPT !.futures = @ (-) SetToBag({f})]
    IN  IF ~resp.ok THEN [r |-> r0, db |-> db, last |-> last, dids |-> <<>>]
        ELSE LET st == ExportRows([r |-> [r0 EXCEPT !.after = Some(f.after)],
                                   db |-> db, last |-> last, dids |-> <<>>],
                                  resp.bytes.rows)
                 all == st.r.inflight
             IN  IF resp.bytes.count = PLC_PAGE
                 THEN [st EXCEPT !.r = SendReq(st.r, None, None)]
                 ELSE [st EXCEPT !.r.inflight = @ \ all,
                                 !.dids = @ \o SetToSeq(all)]

\* a completed Query::Export
PollExport(r, db, last, f, resp) ==
    LET r0 == [r EXCEPT !.futures = @ (-) SetToBag({f})]
    IN  IF ~resp.ok THEN [r |-> r0, db |-> db, last |-> last, dids |-> <<>>]
        ELSE LET st == ExportRows([r |-> [r0 EXCEPT !.after = Some(f.after)],
                                   db |-> db, last |-> last, dids |-> <<>>],
                                  resp.bytes.rows)
                 plc == {d \in st.r.inflight : StartsWith(d, "did:plc:")}
             IN  IF resp.bytes.count = PLC_PAGE
                 THEN [st EXCEPT !.r = SendReq(st.r, None, None)]
                 ELSE [st EXCEPT !.r.inflight = @ \ plc,
                                 !.dids = @ \o SetToSeq(plc)]

\* nothing completed within POLL_TIMEOUT
PollIdle(r) ==
    IF DO_PLC_EXPORT /\ r.elapsed THEN SendReq(r, None, None) ELSE r

\* -------------------------------------------------------- validator: events
CommitTypes == {"Commit", "Sync"}

\* SubscribeReposEvent::commit: Some for #commit / #sync, None otherwise
HasCommit(event) == event.type \in CommitTypes

\* utils::verify_commit_sig: Err on an undecodable signature, else sig matches key
VerifyCommitSig(commit, key) ==
    IF commit.sig = "malformed" THEN "error"
    ELSE IF commit.sig = key THEN "valid" ELSE "invalid"

\* utils::verify_commit_event: rev and data consistent with the previous state
VerifyCommitEvent(commit, prev) ==
    commit.rev > prev.rev /\ commit.prevData = prev.data

\* per-host seq check of Manager::update: TRUE when the frame is old
\* variant: a frame repeating the host's last seq is let through
OldSeqStrict(prev, curr) == prev > curr

OldSeq(prev, curr) == prev >= curr

\* HashMap / partition insert
Put(f, k, v) == [x \in DOMAIN f \cup {k} |-> IF x = k THEN v ELSE f[x]]

\* event.serialize(.., cursor.next()) followed by firehose.insert(*cursor, ..)
\* variant: the record is written at the current cursor, none is allocated
AdmitInPlace(m, host, seq, via) ==
    [m EXCEPT !.firehose = Put(@, m.cursor,
                               [cur |-> m.cursor, host |-> host, seq |-> seq, via |-> via]),
              !.writes = Append(@, m.cursor)]

Admit(m, host, seq, via) ==
    LET n == CursorNext(m.cursor)
    IN  [m EXCEPT !.cursor = n.cursor,
                  !.firehose = Put(@, n.cursor,
                                   [cur |-> n.ret, host |-> host, seq |-> seq, via |-> via]),
                  !.writes = Append(@, n.cursor)]

\* variant: no revision check
RevCheckSkipped(m, event) == FALSE

\* the revision check applies to the Commit variant with an occupied entry
RevCheckFails(m, event) ==
    /\ event.type = "Commit"
    /\ event.did \in DOMAIN m.repos
    /\ ~VerifyCommitEvent(event, m.repos[event.did])

\* ------------------------------------------------- validator: one message
\* one iteration of the message loop of Manager::update
IngestStep(m, db, msg) ==
    IF msg.parse # "ok" THEN [m |-> m, outcome |-> "parse_drop"]
    ELSE
    LET host == msg.hostname
        known == host \in DOMAIN m.hosts
        time == IF known THEN Max(msg.time, m.hosts[host].time) ELSE msg.time
        rec == [seq |-> msg.seq, time |-> time]
    IN  IF known /\ OldSeq(m.hosts[host].seq, msg.seq)
        THEN [m |-> m, outcome |-> "old_seq"]
        ELSE IF ~HasCommit(msg)
        THEN LET r1 == IF msg.type = "Identity"
                       THEN Expire(m.resolver, msg.did, msg.time) ELSE m.resolver
                 m1 == Admit([m EXCEPT !.resolver = r1], host, msg.seq, "ingest")
             IN  [m |-> [m1 EXCEPT !.hosts = Put(@, host, rec)], outcome |-> "event"]
        ELSE IF msg.decode # "ok" THEN [m |-> m, outcome |-> "decode_drop"]
        ELSE IF ~msg.headOk THEN [m |-> m, outcome |-> "head_drop"]
        ELSE
        LET rr == Resolve(m.resolver, db, msg.did)
            queued == Put(m.queue, QueueKey(msg.did, host, msg.seq), msg)
        IN  IF ~IsSome(rr.res)
            THEN [m |-> [m EXCEPT !.resolver = rr.r, !.queue = queued,
                                  !.hosts = Put(@, host, rec)],
                  outcome |-> "queued_unresolved"]
            ELSE IF IsSome(Unwrap(rr.res).pds) /\ host # Unwrap(Unwrap(rr.res).pds)
            THEN [m |-> [m EXCEPT !.resolver = Expire(rr.r, msg.did, time),
                                  !.queue = queued, !.hosts = Put(@, host, rec)],
                  outcome |-> "queued_mismatch"]
            ELSE IF VerifyCommitSig(msg, Unwrap(rr.res).key) # "valid"
            THEN [m |-> [m EXCEPT !.resolver = rr.r], outcome |-> "sig_drop"]
            ELSE IF RevCheckFails(m, msg)
            THEN [m |-> [m EXCEPT !.resolver = rr.r], outcome |-> "rev_drop"]
            ELSE LET m1 == Admit([m EXCEPT !.resolver = rr.r], host, msg.seq, "ingest")
                 IN  [m |-> [m1 EXCEPT !.repos = Put(@, msg.did,
                                             [rev |-> msg.rev, data |-> msg.data]),
                                       !.hosts = Put(@, host, rec)],
                      outcome |-> "commit"]

\* ---------------------------------------------------- validator: scan_did
\* one queue record of Manager::scan_did
ScanOne(m, k, entry) ==
    LET input == m.queue[k]
        host == KeyHost(k)
    IN  IF IsSome(entry.pds) /\ host # Unwrap(entry.pds) THEN m
        ELSE IF VerifyCommitSig(input, entry.key) # "valid" THEN m
        ELSE IF RevCheckFails(m, input) THEN m
        ELSE [Admit(m, host, input.seq, "scan")
                 EXCEPT !.repos = Put(@, input.did, [rev |-> input.rev, data |-> input.data])]

\* variant: the first record that fails a check ends the replay
RECURSIVE ScanRecordsStop(_, _, _)
ScanRecordsStop(m, keys, entry) ==
    IF keys = <<>> THEN m
    ELSE IF ScanOne(m, Head(keys), entry) = m THEN m
    ELSE ScanRecordsStop(ScanOne(m, Head(keys), entry), Tail(keys), entry)

RECURSIVE ScanRecords(_, _, _)
ScanRecords(m, keys, entry) ==
    IF keys = <<>> THEN m
    ELSE ScanRecords(ScanOne(m, Head(keys), entry), Tail(keys), entry)

\* the queue records visited by self.queue.prefix(&did)
ScanPrefix(q, did) == {k \in DOMAIN q : IsPrefix(did, k)}

Remove(f, ks) == [x \in DOMAIN f \ ks |-> f[x]]

\* Manager::scan_did; panic is the unreachable! branch
ScanDid(m, db, did) ==
    LET rr == Resolve(m.resolver, db, did)
        m0 == [m EXCEPT !.resolver = rr.r]
    IN  IF ~IsSome(rr.res) THEN [m |-> m0, panic |-> TRUE, scanned |-> {}]
        ELSE LET ks == ScanPrefix(m.queue, did)
                 m1 == ScanRecords(m0, SortKeys(ks), Unwrap(rr.res))
             IN  [m |-> [m1 EXCEPT !.queue = Remove(@, ks)], panic |-> FALSE,
                  scanned |-> {did}]

\* for did in self.resolver.poll().await? { self.scan_did(cursor, &did)? }
RECURSIVE ScanAll(_, _, _)
ScanAll(st, db, dids) ==
    IF dids = <<>> \/ st.panic THEN st
    ELSE LET s1 == ScanDid(st.m, db, Head(dids))
         IN  ScanAll([m |-> s1.m, panic |-> s1.panic,
                      scanned |-> st.scanned \cup s1.scanned], db, Tail(dids))

\* ------------------------------------------------------ persistence, start
EmptyMap == [x \in {} |-> 0]

\* Manager::persist: upsert of every host whose time is not UNIX_EPOCH
PersistHosts(hs, db) ==
    [h \in DOMAIN db \cup {x \in DOMAIN hs : hs[x].time # UNIX_EPOCH} |->
        IF h \in DOMAIN hs /\ hs[h].time # UNIX_EPOCH THEN hs[h].seq ELSE db[h]]

\* Drop for Manager: every in-memory repo state is written to the partition
FlushRepos(rs, db) ==
    [d \in DOMAIN db \cup DOMAIN rs |-> IF d \in DOMAIN rs THEN rs[d] ELSE db[d]]

\* Manager::run: hosts are loaded with their cursor and UNIX_EPOCH
LoadHosts(db) == [h \in DOMAIN db |-> [seq |-> db[h], time |-> UNIX_EPOCH]]

\* Manager::run: firehose.last_key_value().map(key).unwrap_or_default()
\* variant: the cursor starts from its default on every start
StartCursorDefault(fh) == 0

StartCursor(fh) ==
    IF DOMAIN fh = {} THEN 0 ELSE CHOOSE k \in DOMAIN fh : \A j \in DOMAIN fh : j <= k

\* Manager::run: the queue keys are visited once; a resolvable DID is scanned
RECURSIVE StartDrain(_, _, _)
StartDrain(st, db, keys) ==
    IF keys = <<>> \/ st.panic THEN st
    ELSE LET did == KeyDid(Head(keys))
             rr == Resolve(st.m.resolver, db, did)
             m1 == [st.m EXCEPT !.resolver = rr.r]
         IN  IF IsSome(rr.res)
             THEN LET s1 == ScanDid(m1, db, did)
                  IN  StartDrain([m |-> s1.m, panic |-> s1.panic,
                                  scanned |-> st.scanned \cup s1.scanned], db, Tail(keys))
             ELSE StartDrain([st EXCEPT !.m = m1], db, Tail(keys))

\* ------------------------------------------------------------------ inputs
\* the data CID of revision rv; a frame's prevData names the revision before
DataOf(rv) == IF rv = 0 THEN "c0" ELSE IF rv = 1 THEN "c1" ELSE IF rv = 2 THEN "c2" ELSE "c3"

Frame(h, p, ty, s, t, d, dec, ho, rv, sg) ==
    [hostname |-> h, parse |-> p, type |-> ty, seq |-> s, time |-> t, did |-> d,
     decode |-> dec, headOk |-> ho, rev |-> rv,
     data |-> DataOf(rv), prevData |-> DataOf(rv - 1), sig |-> sg]

\* the upstream hosts that deliver frames (h2 occurs as a PDS endpoint only)
UpHosts == {"h1"}

\* the frames delivered about the DIDs of D
MsgsOf(D) ==
    \* frames that do not parse (Ok(None) or Err)
    { Frame(h, p, "Account", 1, 1, DidW, "ok", TRUE, 1, "k1") :
        h \in UpHosts, p \in {"none", "err"} }
    \cup
    \* non-commit events
    { Frame(h, "ok", "Identity", s, t, d, "ok", TRUE, 1, "k1") :
        h \in UpHosts, s \in Seqs, t \in Times, d \in D }
    \cup
    { Frame(h, "ok", "Account", s, t, DidW, "ok", TRUE, 1, "k1") :
        h \in UpHosts, s \in Seqs, t \in Times }
    \cup
    \* commit-bearing frames that fail decoding or the head check
    { Frame(h, "ok", "Commit", s, 1, DidW, x[1], x[2], 1, "k1") :
        h \in UpHosts, s \in Seqs, x \in {<<"err", TRUE>>, <<"ok", FALSE>>} }
    \cup
    \* #commit and #sync, stamped by the upstream with time = seq
    { Frame(h, "ok", "Commit", s, s, d, "ok", TRUE, rv, "k1") :
        h \in UpHosts, s \in Seqs, d \in D, rv \in Revs }
    \cup
    { Frame(h, "ok", "Sync", s, s, d, "ok", TRUE, 1, "k1") :
        h \in UpHosts, s \in Seqs, d \in D }
    \cup
    { Frame(h, "ok", "Commit", s, 1, DidW, "ok", TRUE, 1, "malformed") :
        h \in UpHosts, s \in Seqs }

\* the DIDs of the upstream traffic explored with the whole validator
MainDids == {DidW, DidWX}
Msgs == MsgsOf(MainDids)

PlcDids == {d \in DIDs : StartsWith(d, "did:plc:")}

Garbage == [json |-> "garbage", id |-> DidW, body |-> [endpoint |-> None, key |-> None]]

\* what a DID document fetch can complete with: an HTTP error, bytes that are
\* no DID document, or a document with any id of D
DidResponses(D) ==
    { [ok |-> FALSE, bytes |-> Garbage], [ok |-> TRUE, bytes |-> Garbage] }
    \cup { [ok |-> TRUE, bytes |-> [json |-> "doc", id |-> d, body |-> b]] :
             d \in D, b \in DocBodies }

\* export pages: the parsed rows and the number of lines of the page
ExportBatches(after, dids, bodies) ==
    LET rowsets == {<<>>} \cup { <<[did |-> d, createdAt |-> t, body |-> b]>> :
                                   d \in dids, t \in after..MaxTime, b \in bodies }
    IN  { [rows |-> rs, count |-> Len(rs)] : rs \in rowsets }
        \cup { [rows |-> rs, count |-> PLC_PAGE] : rs \in rowsets }

ExportResponses(batches) ==
    { [ok |-> FALSE, bytes |-> [rows |-> <<>>, count |-> 0]] }
    \cup { [ok |-> TRUE, bytes |-> b] : b \in batches }

\* the rows of export pages explored with the whole validator
MainBodies == {[endpoint |-> Https("h1"), key |-> Some("k1")]}

\* the rows explored with the resolver alone: usable and unusable ones
AllBodies == {[endpoint |-> Https("h1"), key |-> Some("k1")],
              [endpoint |-> Https("h1"), key |-> None]}

\* the rows explored with the scheduled loop: rows naming either host
LiveBodies == {[endpoint |-> Https("h1"), key |-> Some("k1")],
               [endpoint |-> Https("h2"), key |-> Some("k1")]}

\* ----------------------------------------------------------------- actions
M == [hosts |-> hosts, repos |-> repos, queue |-> queue, firehose |-> firehose,
      cursor |-> cursor, resolver |-> resolver, writes |-> writes]

SetM(m) ==
    /\ hosts' = m.hosts
    /\ repos' = m.repos
    /\ queue' = m.queue
    /\ firehose' = m.firehose
    /\ cursor' = m.cursor
    /\ resolver' = m.resolver
    /\ writes' = m.writes

WithinBounds(m) ==
    /\ Len(m.writes) <= MaxCursor
    /\ Cardinality(DOMAIN m.queue) <= MaxQueue
    /\ BagCardinality(m.resolver.futures) <= MaxFutures

\* the frames the validator is to drop: unparsable, old, undecodable,
\* inconsistent head, or resolved on this host with a bad signature or revision
DropInput(m, db, msg) ==
    \/ msg.parse # "ok"
    \/ msg.hostname \in DOMAIN m.hosts /\ msg.seq <= m.hosts[msg.hostname].seq
    \/ /\ msg.type \in CommitTypes
       /\ \/ msg.decode # "ok"
          \/ ~msg.headOk
          \/ LET res == Resolve(m.resolver, db, msg.did).res
             IN  /\ IsSome(res)
                 /\ IsSome(Unwrap(res).pds) => Unwrap(Unwrap(res).pds) = msg.hostname
                 /\ \/ msg.sig # Unwrap(res).key
                    \/ /\ msg.type = "Commit"
                       /\ msg.did \in DOMAIN m.repos
                       /\ \/ msg.rev <= m.repos[msg.did].rev
                          \/ msg.prevData # m.repos[msg.did].data

\* --------------------------------------------------- publisher: Connection
\* a connection: its socket, its cursor (the next key to send) and the
\* number of frames in its outbound buffer
ConnConnect(fd, cur) == [fd |-> fd, cursor |-> cur, buf |-> 0]

\* Connection::send is an error when the buffer would pass the ceiling
ConnSendFails(conn) == conn.buf + 1 > BufCeiling

\* Connection::send: the frame is appended to the outbound buffer
ConnSend(conn) == [conn EXCEPT !.buf = @ + 1]

\* Connection::poll returning Ok(true): a connection behind the live tail
\* reads the firehose up to it, and the buffer is written to the socket
ConnPoll(conn, seq) ==
    [conn EXCEPT !.cursor = IF @ <= seq THEN seq + 1 ELSE @, !.buf = 0]

\* what Connection::poll answers: Ok(true), Ok(false), Err
PollOutcomes == {"true", "false", "err"}

\* ------------------------------------------------------- publisher: Worker
Workers == 1..NumWorkers
Fds == 1..MaxConns

\* Worker::new
NewWorker == [pc |-> "new", seq |-> 0, connections |-> <<>>, next_idx |-> 0, poll |-> {}]

\* the poller has a registration of the socket
Registered(wk, fd) == \E e \in wk.poll : e.fd = fd

\* the sockets of the connections in a worker's slots
SlotFds(wk) ==
    {Unwrap(wk.connections[i]).fd :
        i \in {j \in 1..Len(wk.connections) : IsSome(wk.connections[j])}}

\* variant: a new connection is always appended
FirstHoleAppend(conns) == Len(conns)

\* connections.iter().position(Option::is_none), else the index past the end
FirstHole(conns) ==
    LET holes == {i \in 1..Len(conns) : ~IsSome(conns[i])}
    IN  IF holes = {} THEN Len(conns)
        ELSE (CHOOSE i \in holes : \A j \in holes : i <= j) - 1

\* Worker::handle_command for Command::Connect; config.ok is the outcome of
\* Connection::connect; panic is the expect on register
HandleCommand(wk, config) ==
    IF ~config.ok THEN [w |-> wk, panic |-> FALSE]
    ELSE LET conn == ConnConnect(config.fd,
                                 IF IsSome(config.cursor) THEN Unwrap(config.cursor)
                                 ELSE CursorNext(wk.seq).ret)
             idx == FirstHole(wk.connections)
             conns == IF idx = Len(wk.connections)
                      THEN Append(wk.connections, None) ELSE wk.connections
         IN  IF Registered(wk, config.fd)
             THEN [w |-> [wk EXCEPT !.connections = conns], panic |-> TRUE]
             ELSE [w |-> [wk EXCEPT !.connections = [conns EXCEPT ![idx + 1] = Some(conn)],
                                    !.poll = @ \cup {[fd |-> config.fd, token |-> idx]}],
                   panic |-> FALSE]

\* one slot of Worker::send: a hole stays, a failed send leaves a hole
SendSlot(slot) ==
    IF ~IsSome(slot) THEN None
    ELSE IF ConnSendFails(Unwrap(slot)) THEN None
    ELSE Some(ConnSend(Unwrap(slot)))

\* variant: one failed send closes every connection of the worker
SendClosesAll(wk) ==
    LET conns == wk.connections
        failing == {i \in 1..Len(conns) : IsSome(conns[i]) /\ ConnSendFails(Unwrap(conns[i]))}
    IN  IF failing = {}
        THEN [w |-> [wk EXCEPT !.connections = [i \in 1..Len(conns) |-> SendSlot(conns[i])]],
              panic |-> FALSE]
        ELSE [w |-> [wk EXCEPT !.connections = [i \in 1..Len(conns) |-> None],
                               !.poll = {}],
              panic |-> FALSE]

\* Worker::send; panic is the expect on deregister
Send(wk) ==
    LET conns == wk.connections
        failing == {i \in 1..Len(conns) : IsSome(conns[i]) /\ ConnSendFails(Unwrap(conns[i]))}
        closed == {Unwrap(conns[i]).fd : i \in failing}
    IN  [w |-> [wk EXCEPT !.connections = [i \in 1..Len(conns) |-> SendSlot(conns[i])],
                          !.poll = {e \in @ : e.fd \notin closed}],
         panic |-> \E fd \in closed : ~Registered(wk, fd)]

\* Worker::poll for slot idx; panic is the index past the table or the
\* expect on deregister
Poll(wk, idx, outcome) ==
    IF idx >= Len(wk.connections) THEN [w |-> wk, panic |-> TRUE]
    ELSE LET slot == wk.connections[idx + 1]
         IN  IF ~IsSome(slot) THEN [w |-> wk, panic |-> FALSE]
             ELSE IF outcome = "true"
             THEN [w |-> [wk EXCEPT !.connections[idx + 1] =
                                        Some(ConnPoll(Unwrap(slot), wk.seq))],
                   panic |-> FALSE]
             ELSE IF ~Registered(wk, Unwrap(slot).fd) THEN [w |-> wk, panic |-> TRUE]
             ELSE [w |-> [wk EXCEPT !.connections[idx + 1] = None,
                                    !.poll = {e \in @ : e.fd # Unwrap(slot).fd}],
                   panic |-> FALSE]

\* the round-robin pass at the end of Worker::update: n more slots to poll
RECURSIVE RoundRobin(_, _, _)
RoundRobin(st, n, outs) ==
    IF n = 0 \/ st.panic THEN st
    ELSE LET idx == (st.w.next_idx + 1) % Len(st.w.connections)
         IN  RoundRobin(Poll([st.w EXCEPT !.next_idx = idx], idx, outs[idx]), n - 1, outs)

\* variant: the range read starts at its last key
NextEntryLast(fh, seq) ==
    LET ks == {k \in DOMAIN fh : k >= seq + 1 /\ k <= seq + 32}
    IN  IF ks = {} THEN None ELSE Some(CHOOSE k \in ks : \A j \in ks : k >= j)

\* the first firehose key of the range (seq, seq + 32], if there is one
NextEntry(fh, seq) ==
    LET ks == {k \in DOMAIN fh : k >= seq + 1 /\ k <= seq + 32}
    IN  IF ks = {} THEN None ELSE Some(CHOOSE k \in ks : \A j \in ks : k <= j)

\* history of a worker step: the worker, the operation, and what
\* Connection::poll answered for the slots the step polled
NoPub == [w |-> 0, op |-> "none", outs |-> <<>>]
OpPub(w, op, outs) == [w |-> w, op |-> op, outs |-> outs]

\* history of a step: was the frame one to drop, which DIDs did scan_did
\* replay, which DIDs did a processed response carry a document or row of,
\* which DID was a direct call of resolve about and did it return None,
\* which frame did an ingest step receive
NoCall == [did |-> DidW, none |-> FALSE, called |-> FALSE]
\* the frame of a step that is not an ingest
NoMsg == Frame("", "none", "None", 0, 0, DidW, "ok", TRUE, 1, "k1")
Op(drop, scanned) ==
    [drop |-> drop, scanned |-> scanned, received |-> {}, call |-> NoCall, msg |-> NoMsg]
OpPoll(scanned, received) ==
    [drop |-> FALSE, scanned |-> scanned, received |-> received, call |-> NoCall,
     msg |-> NoMsg]
OpCall(did, none) ==
    [drop |-> FALSE, scanned |-> {}, received |-> {},
     call |-> [did |-> did, none |-> none, called |-> TRUE], msg |-> NoMsg]
\* an ingest step: the frame it received
OpIngest(drop, msg) ==
    [drop |-> drop, scanned |-> {}, received |-> {}, call |-> NoCall, msg |-> msg]

Init ==
    /\ DO_PLC_EXPORT \in BOOLEAN
    /\ SHUTDOWN = FALSE
    /\ pc = "running"
    /\ hosts = EmptyMap
    /\ repos = EmptyMap
    /\ queue = EmptyMap
    /\ firehose = EmptyMap
    /\ cursor = 0
    /\ plcLast = 1
    /\ resolver = NewResolver(1)
    /\ plcKeys = EmptyMap
    /\ hostsDb = EmptyMap
    /\ reposDb = EmptyMap
    /\ runs = 0
    /\ runStart = 0
    /\ writes = <<>>
    /\ lastOp = Op(FALSE, {})
    /\ workers = [w \in Workers |-> NewWorker]
    /\ lastPub = NoPub

\* one received message of the loop in Manager::update, with at most
\* maxQueue queue records explored
IngestBounded(msgs, logged, maxQueue) ==
    /\ pc = "running"
    /\ \E msg \in msgs :
         \E st \in {IngestStep(M, plcKeys, msg)} :
             /\ WithinBounds([st.m EXCEPT !.queue = EmptyMap])
             /\ Cardinality(DOMAIN st.m.queue) <= maxQueue
             /\ SetM(st.m)
             /\ lastOp' = IF logged THEN OpIngest(DropInput(M, plcKeys, msg), msg)
                          ELSE Op(DropInput(M, plcKeys, msg), {})
    /\ UNCHANGED <<DO_PLC_EXPORT, SHUTDOWN, pc, plcKeys, plcLast, hostsDb, reposDb,
                   runs, runStart, workers, lastPub>>

IngestWith(msgs, logged) == IngestBounded(msgs, logged, MaxQueue)

IngestOf(msgs) == IngestWith(msgs, FALSE)

Ingest == IngestOf(Msgs)

\* the tail of Manager::update: the polled DIDs are scanned; a panic in
\* scan_did unwinds through Drop (SHUTDOWN, persist, repos flush)
AfterPoll(r1, db1, last1, dids, received) ==
    \E st \in {ScanAll([m |-> [M EXCEPT !.resolver = r1], panic |-> FALSE, scanned |-> {}],
                        db1, dids)} :
        /\ WithinBounds(st.m)
        /\ SetM(st.m)
        /\ plcKeys' = db1
        /\ plcLast' = last1
        /\ lastOp' = OpPoll(st.scanned, received)
        /\ IF st.panic
           THEN /\ pc' = "stopped"
                /\ SHUTDOWN' = TRUE
                /\ hostsDb' = PersistHosts(st.m.hosts, hostsDb)
                /\ reposDb' = FlushRepos(st.m.repos, reposDb)
           ELSE UNCHANGED <<pc, SHUTDOWN, hostsDb, reposDb>>
        /\ UNCHANGED <<DO_PLC_EXPORT, runs, runStart, workers, lastPub>>

\* Resolver::poll when no fetch completes within POLL_TIMEOUT
PollNone ==
    /\ pc = "running"
    /\ AfterPoll(PollIdle(resolver), plcKeys, plcLast, <<>>, {})

\* Resolver::poll when a DID document fetch completes
PollDocOf(D) ==
    /\ pc = "running"
    /\ \E f \in BagToSet(resolver.futures) :
         /\ f.kind = "Did"
         /\ \E resp \in DidResponses(D) :
              \E p \in {PollDid(resolver, f, resp)}, doc \in {ParseDidDoc(resp.bytes)} :
                  AfterPoll(p.r, plcKeys, plcLast, p.dids,
                            IF resp.ok /\ IsSome(doc) THEN {Unwrap(doc).did} ELSE {})

PollDoc == PollDocOf(MainDids)

\* Resolver::poll when an export request completes
PollBatchOf(bodies) ==
    /\ pc = "running"
    /\ \E f \in BagToSet(resolver.futures) :
         /\ f.kind = "Export"
         /\ \E resp \in ExportResponses(ExportBatches(f.after, PlcDids, bodies)) :
              \E p \in {PollExport(resolver, plcKeys, plcLast, f, resp)},
                 rows \in {resp.bytes.rows} :
                  AfterPoll(p.r, p.db, p.last, p.dids,
                            IF resp.ok THEN {rows[i].did : i \in 1..Len(rows)} ELSE {})

PollBatch == PollBatchOf(MainBodies)

\* PLC_EXPORT_INTERVAL passes since Resolver.last
Tick ==
    /\ pc = "running"
    /\ ~resolver.elapsed
    /\ resolver' = [resolver EXCEPT !.elapsed = TRUE]
    /\ lastOp' = Op(FALSE, {})
    /\ UNCHANGED <<DO_PLC_EXPORT, SHUTDOWN, pc, hosts, repos, queue, firehose, cursor,
                   plcKeys, plcLast, hostsDb, reposDb, runs, runStart, writes, workers,
                   lastPub>>

\* Manager::run returns (channel closed or SHUTDOWN seen) and Manager is
\* dropped: SHUTDOWN is stored, hosts are persisted, repos are flushed.  The
\* periodic persist of Manager::update writes rows that this one overwrites.
Stop ==
    /\ pc = "running"
    /\ pc' = "stopped"
    /\ SHUTDOWN' = TRUE
    /\ hostsDb' = PersistHosts(hosts, hostsDb)
    /\ reposDb' = FlushRepos(repos, reposDb)
    /\ lastOp' = Op(FALSE, {})
    /\ UNCHANGED <<DO_PLC_EXPORT, hosts, repos, queue, firehose, cursor, resolver,
                   plcKeys, plcLast, runs, runStart, writes, workers, lastPub>>

\* a new process: Manager::new and Manager::run up to the update loop
Restart ==
    /\ pc = "stopped"
    /\ runs < MaxRuns
    /\ \E st \in {StartDrain([m |-> [hosts |-> LoadHosts(hostsDb), repos |-> reposDb,
                                        queue |-> queue, firehose |-> firehose,
                                        cursor |-> StartCursor(firehose),
                                        resolver |-> NewResolver(plcLast),
                                        writes |-> writes],
                                  panic |-> FALSE, scanned |-> {}], plcKeys,
                                 SortKeys(DOMAIN queue))} :
           /\ WithinBounds(st.m)
           /\ SetM(st.m)
           /\ lastOp' = Op(FALSE, st.scanned)
    /\ pc' = "running"
    /\ SHUTDOWN' = FALSE
    /\ runs' = runs + 1
    /\ runStart' = Len(writes)
    /\ UNCHANGED <<DO_PLC_EXPORT, plcKeys, plcLast, hostsDb, reposDb, workers, lastPub>>

\* the validator with its resolver, over restarts
Next ==
    \/ Ingest
    \/ PollNone
    \/ PollDoc
    \/ PollBatch
    \/ Tick
    \/ Stop
    \/ Restart

Spec == Init /\ [][Next]_vars

\* ------------------------------------------------- the resolver on its own
\* resolve(did) as Manager::update calls it for a commit frame of any DID
CallResolve ==
    /\ pc = "running"
    /\ \E d \in DIDs :
         \E rr \in {Resolve(resolver, plcKeys, d)} :
             /\ BagCardinality(rr.r.futures) <= MaxFutures
             /\ resolver' = rr.r
             /\ lastOp' = OpCall(d, ~IsSome(rr.res))
    /\ UNCHANGED <<DO_PLC_EXPORT, SHUTDOWN, pc, hosts, repos, queue, firehose, cursor,
                   plcKeys, plcLast, hostsDb, reposDb, runs, runStart, writes, workers,
                   lastPub>>

\* expire(did, time) as Manager::update calls it for #identity and on a
\* hostname / pds mismatch
CallExpire ==
    /\ pc = "running"
    /\ \E d \in DIDs, t \in Times :
         /\ BagCardinality(Expire(resolver, d, t).futures) <= MaxFutures
         /\ resolver' = Expire(resolver, d, t)
    /\ lastOp' = Op(FALSE, {})
    /\ UNCHANGED <<DO_PLC_EXPORT, SHUTDOWN, pc, hosts, repos, queue, firehose, cursor,
                   plcKeys, plcLast, hostsDb, reposDb, runs, runStart, writes, workers,
                   lastPub>>

PollDocAll == PollDocOf(DIDs)

PollBatchAll == PollBatchOf(AllBodies)

\* every call sequence on the Resolver, over all kinds of DID
ResolverNext ==
    \/ CallResolve
    \/ CallExpire
    \/ PollNone
    \/ PollDocAll
    \/ PollBatchAll
    \/ Tick

ResolverSpec == Init /\ [][ResolverNext]_vars

\* ------------------------------------------ the validator loop, scheduled
LiveDids == {DidP}

\* the frames about the DID of the scheduled loop
LiveMsgs == MsgsOf(LiveDids)

LiveIngest == IngestOf(LiveMsgs)

LivePollDoc == PollDocOf(LiveDids)

LivePollBatch == PollBatchOf(LiveBodies)

\* one run of the update loop: no restart
LiveNext ==
    \/ LiveIngest
    \/ PollNone
    \/ LivePollDoc
    \/ LivePollBatch
    \/ Tick

\* every update iteration polls the resolver, and every HTTP request
\* completes (REQ_TIMEOUT)
LiveSpec ==
    /\ Init
    /\ [][LiveNext]_vars
    /\ WF_vars(PollNone)
    /\ WF_vars(LivePollDoc)
    /\ WF_vars(LivePollBatch)

\* ------------------------------ the update loop with the frame of each step
StepDids == {DidW}

\* a received message, remembered in lastOp
\* the frames about the DID followed step by step
StepMsgs == MsgsOf(StepDids)

StepIngest == IngestWith(StepMsgs, TRUE)

StepPollDoc == PollDocOf(StepDids)

\* one run of the update loop over the traffic of one DID
StepNext ==
    \/ StepIngest
    \/ PollNone
    \/ StepPollDoc
    \/ PollBatch
    \/ Tick

StepSpec == Init /\ [][StepNext]_vars

\* --------------------------------- the update loop over frames with seq gaps
\* the frames of StepIngest with the upstream seqs 1, 3, ...: a host skips seqs
GapMsgs == {[msg EXCEPT !.seq = 2 * msg.seq - 1] : msg \in StepMsgs}

GapIngest == IngestWith(GapMsgs, TRUE)

GapNext ==
    \/ GapIngest
    \/ PollNone
    \/ StepPollDoc
    \/ PollBatch
    \/ Tick

GapSpec == Init /\ [][GapNext]_vars

\* ------------------------------- the update loop with several queued frames
\* commit-bearing frames of one DID with the upstream seqs 9 and 10
ReplayMsgs ==
    { Frame(h, "ok", ty, sq, 1, DidW, "ok", TRUE, rv, sg) :
        h \in UpHosts, ty \in CommitTypes, sq \in {9, 10}, rv \in Revs, sg \in Keys }

ReplayIngest == IngestBounded(ReplayMsgs, TRUE, MaxReplay)

ReplayNext ==
    \/ ReplayIngest
    \/ PollNone
    \/ StepPollDoc
    \/ Tick

ReplaySpec == Init /\ [][ReplayNext]_vars

\* ------------------------------------------- the publisher workers, scheduled
valVars == <<DO_PLC_EXPORT, SHUTDOWN, pc, hosts, repos, queue, firehose, cursor,
             resolver, plcKeys, plcLast, hostsDb, reposDb, runs, runStart, writes, lastOp>>

\* the step of worker w ends in position next, or in the panic of an expect
SetWorker(w, st, next, op, outs) ==
    /\ workers' = [workers EXCEPT ![w] =
                       [st.w EXCEPT !.pc = IF st.panic THEN "panicked" ELSE next]]
    /\ lastPub' = OpPub(w, op, outs)
    /\ UNCHANGED valVars

\* Worker::run up to the loop: seq is the last key of the firehose
WorkerRun(w) ==
    /\ workers[w].pc = "new"
    /\ SetWorker(w, [w |-> [workers[w] EXCEPT !.seq = StartCursor(firehose)],
                     panic |-> FALSE], "top", "run", <<>>)

\* variant: update does not look at SHUTDOWN
WorkerUpdateBlind(w) ==
    /\ workers[w].pc = "top"
    /\ SetWorker(w, [w |-> workers[w], panic |-> FALSE], "inner", "update", <<>>)

\* the head of Worker::update: with SHUTDOWN set update returns false, run
\* leaves its loop and shutdown drops the connections
WorkerUpdate(w) ==
    /\ workers[w].pc = "top"
    /\ IF SHUTDOWN
       THEN SetWorker(w, [w |-> [workers[w] EXCEPT !.connections = <<>>, !.poll = {}],
                          panic |-> FALSE], "stopped", "update", <<>>)
       ELSE SetWorker(w, [w |-> workers[w], panic |-> FALSE], "inner", "update", <<>>)

\* the sockets open in the process
OpenFds == UNION {SlotFds(workers[w]) : w \in Workers}

\* config.cursor of a Connect command: absent, or a key of the log
ConnectCursors == {None, Some(1)}

\* a command is popped and handled; a new socket has a descriptor that no
\* open socket has
WorkerCommand(w) ==
    /\ workers[w].pc = "inner"
    /\ \E fd \in Fds \ OpenFds, cur \in ConnectCursors, ok \in BOOLEAN :
         \E st \in {HandleCommand(workers[w], [fd |-> fd, cursor |-> cur, ok |-> ok])} :
             /\ Len(st.w.connections) <= MaxSlots
             /\ SetWorker(w, st, "inner", "command", <<>>)

\* one entry of the firehose range is read and broadcast
WorkerBroadcast(w) ==
    /\ workers[w].pc = "inner"
    /\ \E k \in {NextEntry(firehose, workers[w].seq)} :
         /\ IsSome(k)
         /\ SetWorker(w, Send([workers[w] EXCEPT !.seq = Unwrap(k)]), "inner", "send", <<>>)

\* a readiness event of a registered socket is handled
WorkerEvent(w) ==
    /\ workers[w].pc = "inner"
    /\ \E e \in workers[w].poll, outcome \in PollOutcomes :
         SetWorker(w, Poll(workers[w], e.token, outcome), "inner", "poll",
                   [i \in {e.token} |-> outcome])

\* the round-robin pass; update returns true
WorkerPass(w) ==
    /\ workers[w].pc = "inner"
    /\ \E outs \in [0..(Len(workers[w].connections) - 1) -> PollOutcomes] :
         SetWorker(w, RoundRobin([w |-> workers[w], panic |-> FALSE],
                                 Len(workers[w].connections), outs),
                   "top", "pass", outs)

\* the frames the validator admits without the resolver
PubMsgs == {msg \in MsgsOf({}) : msg.parse = "ok" /\ msg.type = "Account" /\ msg.time = 1}

PubIngest == IngestOf(PubMsgs)

\* a component other than the validator exits fatally and stores SHUTDOWN
FatalExit ==
    /\ ~SHUTDOWN
    /\ SHUTDOWN' = TRUE
    /\ UNCHANGED <<DO_PLC_EXPORT, pc, hosts, repos, queue, firehose, cursor, resolver,
                   plcKeys, plcLast, hostsDb, reposDb, runs, runStart, writes, lastOp,
                   workers, lastPub>>

\* Manager::update loads SHUTDOWN and returns false
ValidatorObserves == SHUTDOWN /\ Stop

\* the worker whose connections are followed
OneWorker == {1}

\* the validator appending to the firehose and a worker publishing it to
\* its subscribers
PubNext ==
    \/ PubIngest
    \/ Stop
    \/ \E w \in OneWorker : WorkerRun(w)
    \/ \E w \in OneWorker : WorkerUpdate(w)
    \/ \E w \in OneWorker : WorkerCommand(w)
    \/ \E w \in OneWorker : WorkerBroadcast(w)
    \/ \E w \in OneWorker : WorkerEvent(w)
    \/ \E w \in OneWorker : WorkerPass(w)

PubSpec == Init /\ [][PubNext]_vars

\* the same system with its threads scheduled: the worker thread runs, every
\* update reaches its range read (which broadcasts an entry whenever one
\* is in range) and its round-robin pass
PubFairSpec ==
    /\ Init
    /\ [][PubNext]_vars
    /\ \A w \in OneWorker : WF_vars(WorkerRun(w))
    /\ \A w \in OneWorker : WF_vars(WorkerUpdate(w))
    /\ \A w \in OneWorker : SF_vars(WorkerBroadcast(w))
    /\ \A w \in OneWorker : WF_vars(WorkerPass(w))

\* ------------------------------------------------ shutdown of the process
\* the validator and all workers, without subscribers
ShutNext ==
    \/ PubIngest
    \/ Stop
    \/ FatalExit
    \/ ValidatorObserves
    \/ \E w \in Workers : WorkerRun(w)
    \/ \E w \in Workers : WorkerUpdate(w)
    \/ \E w \in Workers : WorkerBroadcast(w)
    \/ \E w \in Workers : WorkerPass(w)

\* every thread keeps running: each worker starts its loop, the bounded
\* loops of an update end, the next update begins, and the validator's next
\* update loads SHUTDOWN
ShutSpec ==
    /\ Init
    /\ [][ShutNext]_vars
    /\ \A w \in Workers : WF_vars(WorkerRun(w))
    /\ \A w \in Workers : WF_vars(WorkerUpdate(w))
    /\ \A w \in Workers : WF_vars(WorkerPass(w))
    /\ WF_vars(ValidatorObserves)

\* ------------------------------------------------------------- properties
\* C1: the firehose keys are exactly 1..n, allocated in increasing order
\* without a skip, and no key is written twice: the i-th write of the log
\* is to key i, over ingest, scan_did, the startup drain and restarts
FirehoseKeysDense ==
    /\ DOMAIN firehose = 1..Len(writes)
    /\ \A i \in 1..Len(writes) : writes[i] = i

\* a record written before a restart and another one after it
FirehoseKeysDenseWitness ==
    /\ runs >= 1
    /\ runStart >= 1
    /\ Len(writes) > runStart

\* C2: every firehose record's key equals the cursor embedded in its frame
KeyEqualsEmbeddedCursor == \A k \in DOMAIN firehose : firehose[k].cur = k

\* the upstream seq of the same host grows with the relay cursor, over the
\* records in I
SeqOrdered(I) ==
    \A i \in I, j \in I :
        (i < j /\ firehose[i].host = firehose[j].host) => firehose[i].seq < firehose[j].seq

DirectRecords == {k \in DOMAIN firehose : k > runStart /\ firehose[k].via = "ingest"}

RevNonDecreasing ==
    [][pc = "running" =>
          \A d \in DOMAIN repos \cap DOMAIN repos' : repos'[d].rev >= repos[d].rev]_vars

\* C6: a queue record is deleted exactly by scan_did of its own DID: every
\* record a step removes has the DID of a scan_did of that step, and every
\* scan_did of a step removes all records of its DID
QueueDeletedIffScanned ==
    [][/\ \A k \in DOMAIN queue \ DOMAIN queue' : KeyDid(k) \in lastOp'.scanned
       /\ \A k \in DOMAIN queue \cap DOMAIN queue' : KeyDid(k) \notin lastOp'.scanned]_vars

\* C10: an ingest step for a frame to drop (old seq, parse or decode failure,
\* head, signature or revision failure) leaves firehose, relay cursor, queue,
\* Repo state and host records unchanged
DroppedChangesNothing ==
    [][lastOp'.drop => UNCHANGED <<firehose, cursor, queue, repos, hosts>>]_vars

\* a frame was dropped by a validator that holds admitted and queued state
DroppedChangesNothingWitness ==
    /\ lastOp.drop
    /\ DOMAIN firehose # {}
    /\ DOMAIN repos # {}
    /\ DOMAIN hosts # {}

\* an outstanding fetch f targets DID d: its URL was built from d
FetchTargets(f, d) ==
    /\ f.kind = "Did"
    /\ \/ f.via = "plc" /\ StripPrefix(d, "did:plc:") = Some(f.query)
       \/ /\ f.via = "web"
          /\ IsSome(StripPrefix(d, "did:web:"))
          /\ UrlDecode(Unwrap(StripPrefix(d, "did:web:"))) = Some(f.query)

\* after a call resolve(d) that returned None, d is inflight or the call
\* added a fetch for d
NoneIsPending(d) ==
    (lastOp'.call.called /\ lastOp'.call.did = d /\ lastOp'.call.none) =>
        \/ d \in resolver'.inflight
        \/ \E f \in BagToSet(resolver'.futures) :
             /\ FetchTargets(f, d)
             /\ CopiesIn(f, resolver'.futures) > CopiesIn(f, resolver.futures)

\* C7 as stated: for every DID string d, resolve(d) returning None leaves d
\* inflight or has just issued a fetch for d
ResolveNonePending == [][\A d \in DIDs : NoneIsPending(d)]_vars

\* C7: for every DID d that starts with did:plc: or did:web:, resolve(d)
\* returning None leaves d inflight or has just issued a fetch for d
ResolveNonePendingPlcWeb ==
    [][\A d \in DIDs :
          (StartsWith(d, "did:plc:") \/ StartsWith(d, "did:web:")) => NoneIsPending(d)]_vars

\* resolve returned None for a did:web DID that fails url-decoding
ResolveNonePendingPlcWebWitness ==
    /\ lastOp.call.called
    /\ lastOp.call.none
    /\ lastOp.call.did = DidB
    /\ DidB \in resolver.inflight

\* C8: a DID is inflight exactly while an outstanding fetch targets it
InflightIffFetch ==
    \A d \in DIDs :
        d \in resolver.inflight <=> \E f \in BagToSet(resolver.futures) : FetchTargets(f, d)

\* resolve(d) is Some without a request: d is cached or in the mirror
Resolvable(d) ==
    /\ d \notin resolver.inflight
    /\ CacheIndex(resolver.cache, d) # 0 \/ QueryDb(resolver, plcKeys, d).hit

LiveKeys == {QueueKey(d, h, s) : d \in LiveDids, h \in UpHosts, s \in Seqs}

\* C9: a queued frame whose DID is resolvable after a document or an export
\* row of that DID was received is eventually removed from the queue
QueuedEventuallyDrained ==
    \A k \in LiveKeys :
        (/\ k \in DOMAIN queue
         /\ KeyDid(k) \in lastOp.received
         /\ Resolvable(KeyDid(k))) ~> (k \notin DOMAIN queue)

\* the frame of the step is commit-bearing, decodes, and passes the per-host
\* sequence check in the state before the step
ReachesResolve(msg) ==
    /\ msg.parse = "ok"
    /\ msg.type \in {"Commit", "Sync"}
    /\ msg.decode = "ok"
    /\ msg.headOk
    /\ msg.hostname \in DOMAIN hosts => hosts[msg.hostname].seq < msg.seq

\* the host record written for a frame: its seq, its time clamped
ClampedRecord(msg) ==
    [seq |-> msg.seq,
     time |-> IF msg.hostname \in DOMAIN hosts /\ hosts[msg.hostname].time > msg.time
              THEN hosts[msg.hostname].time ELSE msg.time]

\* the step stores msg under "did>host>seq", records the host, and writes
\* nothing else
QueuedOnly(msg) ==
    LET key == msg.did \o <<">", msg.hostname, ">">> \o Decimal(msg.seq)
    IN  /\ DOMAIN queue' = DOMAIN queue \cup {key}
        /\ queue'[key] = msg
        /\ \A k \in DOMAIN queue \ {key} : queue'[k] = queue[k]
        /\ DOMAIN hosts' = DOMAIN hosts \cup {msg.hostname}
        /\ hosts'[msg.hostname] = ClampedRecord(msg)
        /\ \A h \in DOMAIN hosts \ {msg.hostname} : hosts'[h] = hosts[h]
        /\ UNCHANGED <<firehose, cursor, repos, writes>>

\* C11: an ingested commit-bearing frame that passes the sequence check and
\* whose DID resolve answers None is stored as one queue record "d>h>s"
\* holding the raw frame, hosts[h] becomes (s, clamped time), and firehose,
\* relay cursor and Repo state are unchanged
UnresolvedIsQueued ==
    [][(/\ lastOp'.msg.type # "None"
        /\ ReachesResolve(lastOp'.msg)
        /\ ~IsSome(Resolve(resolver, plcKeys, lastOp'.msg.did).res))
       => QueuedOnly(lastOp'.msg)]_vars

\* a frame of an unresolved DID was queued by a validator that already
\* holds a host record and a firehose record
UnresolvedIsQueuedWitness ==
    /\ lastOp.msg.type \in {"Commit", "Sync"}
    /\ lastOp.msg.did \in resolver.inflight
    /\ \E k \in DOMAIN queue : queue[k] = lastOp.msg
    /\ hosts[lastOp.msg.hostname].seq = lastOp.msg.seq
    /\ DOMAIN firehose # {}

\* the frame of the step reaches resolve, which answers an endpoint that is
\* set and differs from the frame's hostname
EndpointDiffers(msg) ==
    /\ ReachesResolve(msg)
    /\ \E res \in {Resolve(resolver, plcKeys, msg.did).res} :
         /\ IsSome(res)
         /\ IsSome(Unwrap(res).pds)
         /\ Unwrap(Unwrap(res).pds) # msg.hostname

\* after the step d is not cached, a refresh is pending and resolve(d) is None
ExpiredAfter(d) ==
    /\ CacheIndex(resolver'.cache, d) = 0
    /\ d \in resolver'.inflight
    /\ ~IsSome(Resolve(resolver', plcKeys', d).res)

\* C12: an ingested commit frame on host h for a DID whose resolved endpoint
\* is set and differs from h leaves the DID expired in the resolver, the
\* frame queued under "d>h>seq", hosts[h] updated and the firehose unchanged,
\* whatever the event time and whether or not an export is outstanding
MismatchExpiresAndQueues ==
    [][(lastOp'.msg.type # "None" /\ EndpointDiffers(lastOp'.msg))
       => (ExpiredAfter(lastOp'.msg.did) /\ QueuedOnly(lastOp'.msg))]_vars

\* the step completed the fetch f
Completed(f) ==
    /\ f \in BagToSet(resolver.futures)
    /\ CopiesIn(f, resolver'.futures) < CopiesIn(f, resolver.futures)

\* C13: a document whose id is not the DID its fetch was issued for is
\* discarded: the cache is left as it was and poll returns no DID
DocCachedOnlyUnderQuery ==
    [][\A f \in BagToSet(resolver.futures), d \in lastOp'.received :
          (f.kind = "Did" /\ Completed(f) /\ ~FetchTargets(f, d))
          => (resolver'.cache = resolver.cache /\ lastOp'.scanned = {})]_vars

\* a fetch for d completes without a document: the HTTP request failed or
\* its body was unreadable, and poll only logged it
FetchFailed(f, d) ==
    /\ Completed(f)
    /\ FetchTargets(f, d)
    /\ lastOp'.received = {}

\* resolve(d), called next, adds a fetch for d
DemandFetches(r, db, d) ==
    \E g \in BagToSet(Resolve(r, db, d).r.futures) :
        /\ FetchTargets(g, d)
        /\ CopiesIn(g, Resolve(r, db, d).r.futures) > CopiesIn(g, r.futures)

\* C14: after a fetch for d has failed, d is still inflight and the next
\* resolve(d) issues a new fetch for d, so that d can become resolvable
FailedFetchRetried ==
    [][\A f \in BagToSet(resolver.futures), d \in DIDs :
          FetchFailed(f, d)
          => (d \in resolver'.inflight /\ DemandFetches(resolver', plcKeys', d))]_vars

\* the step writes repos[d]
RepoChanged(d) ==
    \/ (d \in DOMAIN repos) # (d \in DOMAIN repos')
    \/ d \in DOMAIN repos \cap DOMAIN repos' /\ repos'[d] # repos[d]

\* the step appends a firehose record of a frame of the given type for d:
\* the frame it ingested, or a queue record that it replayed and deleted
AppendsEventOf(types, d) ==
    \E c \in DOMAIN firehose' \ DOMAIN firehose :
        \/ /\ firehose'[c].via = "ingest"
           /\ lastOp'.msg.type \in types
           /\ lastOp'.msg.did = d
           /\ firehose'[c].host = lastOp'.msg.hostname
           /\ firehose'[c].seq = lastOp'.msg.seq
        \/ /\ firehose'[c].via = "scan"
           /\ \E k \in DOMAIN queue \ DOMAIN queue' :
                /\ queue[k].type \in types
                /\ queue[k].did = d
                /\ firehose'[c].host = KeyHost(k)
                /\ firehose'[c].seq = queue[k].seq

\* C17: repos[d] changes only in a step that also appends a Commit-variant
\* event for d to the firehose; no Sync, Identity or Account frame and no
\* queued or dropped frame changes the Repo state
ReposWrittenByCommitOnly ==
    [][\A d \in DIDs : RepoChanged(d) => AppendsEventOf({"Commit"}, d)]_vars

\* C18: within one run every change of a host record strictly increases its
\* seq and no step decreases its time; a frame with seq <= last_seq leaves
\* the records alone, and a frame that is not dropped is recorded with its
\* seq and the clamped time, whether it is the host's first frame (any seq)
\* or skips seqs
HostRecordMonotone ==
    [][\A h \in UpHosts :
          /\ h \in DOMAIN hosts =>
                /\ h \in DOMAIN hosts'
                /\ hosts'[h].time >= hosts[h].time
                /\ hosts'[h] # hosts[h] => hosts'[h].seq > hosts[h].seq
          /\ (lastOp'.msg.type # "None" /\ lastOp'.msg.hostname = h) =>
                /\ (h \in DOMAIN hosts /\ lastOp'.msg.seq <= hosts[h].seq)
                      => hosts' = hosts
                /\ ~lastOp'.drop => hosts'[h] = ClampedRecord(lastOp'.msg)]_vars

\* a frame that skipped a seq was recorded with the time of an earlier frame
HostRecordMonotoneWitness ==
    \E h \in UpHosts :
        /\ lastOp.msg.type # "None"
        /\ lastOp.msg.hostname = h
        /\ ~lastOp.drop
        /\ lastOp.msg.seq = 3
        /\ h \in DOMAIN hosts
        /\ hosts[h].seq = 3
        /\ hosts[h].time > lastOp.msg.time

\* C19: every DID that poll returns resolves at the start of scan_did: no
\* step of the update loop ends in the unreachable! branch, which is the
\* only way the loop of this specification stops
PolledDidsResolve == [][pc = "running" => pc' = "running"]_vars

\* an export request is outstanding
ExportOutstanding == \E f \in BagToSet(resolver.futures) : f.kind = "Export"

\* C20: with PLC export enabled, once PLC_EXPORT_INTERVAL has passed since the
\* last export and no export request is outstanding, the polls of a running
\* validator issue a new export request, also after an export request that
\* completed with an HTTP error
ExportReissued ==
    (DO_PLC_EXPORT /\ pc = "running" /\ resolver.elapsed /\ ~ExportOutstanding)
        ~> (ExportOutstanding \/ pc = "stopped")

\* every thread of the process has left its loop
AllStopped ==
    /\ pc = "stopped"
    /\ \A w \in Workers : workers[w].pc = "stopped"

\* C15: SHUTDOWN is set whenever the validator has exited, no step clears
\* it, a worker update that begins with SHUTDOWN set returns stop, and once
\* SHUTDOWN is set the validator and every worker eventually leave their loops
ShutdownStopsAll ==
    /\ [](pc = "stopped" => SHUTDOWN)
    /\ [][SHUTDOWN => SHUTDOWN']_vars
    /\ [][\A w \in Workers :
            (SHUTDOWN /\ workers[w].pc = "top" /\ workers'[w] # workers[w])
            => workers'[w].pc = "stopped"]_vars
    /\ SHUTDOWN ~> AllStopped

\* SHUTDOWN was stored by another component while the validator and the
\* workers were in their loops, and all of them have stopped
ShutdownStopsAllWitness ==
    /\ AllStopped
    /\ SHUTDOWN
    /\ lastPub.op = "update"
    /\ Len(writes) >= 1

\* the slots of worker w whose connection fails in the step: its send is an
\* error, or its poll answers Ok(false) or Err
Shed(w) ==
    {j \in 1..Len(workers[w].connections) :
        /\ IsSome(workers[w].connections[j])
        /\ \/ lastPub'.op = "send" /\ ConnSendFails(Unwrap(workers[w].connections[j]))
           \/ /\ lastPub'.op \in {"poll", "pass"}
              /\ j - 1 \in DOMAIN lastPub'.outs
              /\ lastPub'.outs[j - 1] # "true"}

\* what slot j of worker w holds after the step if its own connection does
\* not fail: the connection after its own send or poll, else the slot as it was
OwnSlot(w, j) ==
    LET slot == workers[w].connections[j]
    IN  IF ~IsSome(slot) THEN slot
        ELSE IF lastPub'.op = "send" THEN Some(ConnSend(Unwrap(slot)))
        ELSE IF j - 1 \in DOMAIN lastPub'.outs
        THEN Some(ConnPoll(Unwrap(slot), workers[w].seq))
        ELSE slot

\* a send or poll step of worker w sheds exactly the failing connections
ShedsOnlyFailed(w) ==
    LET pre == workers[w]
        post == workers'[w]
        closed == {Unwrap(pre.connections[j]).fd : j \in Shed(w)}
    IN  /\ Len(post.connections) = Len(pre.connections)
        /\ \A j \in 1..Len(pre.connections) :
              post.connections[j] = IF j \in Shed(w) THEN None ELSE OwnSlot(w, j)
        /\ post.poll = {e \in pre.poll : e.fd \notin closed}
        /\ post.seq = IF lastPub'.op = "send"
                      THEN Unwrap(NextEntry(firehose, pre.seq)) ELSE pre.seq
        /\ post.pc \in {"inner", "top"}
        /\ \A v \in Workers \ {w} : workers'[v] = workers[v]

\* the validator can take an ingest step: a condition on its own state
CanIngest ==
    /\ pc = "running"
    /\ \E msg \in PubMsgs : WithinBounds(IngestStep(M, plcKeys, msg).m)

\* C16: a connection whose send fails or whose poll answers Ok(false) or Err
\* is deregistered and its slot is a hole after the same step, every other
\* slot, cursor, buffer and registration is what its own send or poll makes
\* it, the worker's seq is the key it broadcast (else unchanged), the worker
\* keeps running, and whether the validator can ingest depends on no worker
\* or connection state
SlowConsumersShed ==
    /\ [][\A w \in Workers :
            (pubVars' # pubVars /\ lastPub'.w = w /\ lastPub'.op \in {"send", "poll", "pass"})
            => ShedsOnlyFailed(w)]_vars
    /\ [](ENABLED PubIngest <=> CanIngest)
    /\ [][PubIngest => UNCHANGED pubVars]_vars

\* a poll answered Ok(false) or Err for one connection, whose slot is now a
\* hole, while the worker goes on with a connection in another slot
SlowConsumersShedWitness ==
    \E w \in Workers, idx \in DOMAIN lastPub.outs :
        /\ lastPub.w = w
        /\ lastPub.op = "poll"
        /\ lastPub.outs[idx] # "true"
        /\ workers[w].pc = "inner"
        /\ ~IsSome(workers[w].connections[idx + 1])
        /\ \E j \in 1..Len(workers[w].connections) : IsSome(workers[w].connections[j])

\* the number of export requests outstanding
ExportsOutstanding ==
    BagCardinality([f \in {g \in BagToSet(resolver.futures) : g.kind = "Export"}
                      |-> CopiesIn(f, resolver.futures)])

\* C21: at most one export request is outstanding, and `after` is None
\* exactly while one is: the request holds the cursor and its completion
\* gives it back
ExportHoldsCursor ==
    /\ ExportsOutstanding <= 1
    /\ ~IsSome(resolver.after) <=> ExportOutstanding

\* the DIDs a refresh can be fetched for
Fetchable == {DidW, DidWX, DidP}

\* expire(d, t) in the present state removes d from the cache and leaves it
\* pending, so that resolve(d) answers None
ExpireTakesEffect(d, t) ==
    LET r == Expire(resolver, d, t)
    IN  /\ CacheIndex(r.cache, d) = 0
        /\ d \in r.inflight
        /\ ~IsSome(Resolve(r, plcKeys, d).res)

\* C22: in every resolver state, also while an export request is
\* outstanding, expire(d, t) with t newer than the mirror's newest
\* created_at removes d from the cache and leaves resolve(d) answering None,
\* and expire(d, t) with t not newer changes nothing
ExpireByHighWater ==
    \A d \in Fetchable, t \in Times :
        IF t > plcLast THEN ExpireTakesEffect(d, t)
        ELSE Expire(resolver, d, t) = resolver

\* the frame is a parsed non-commit event that passes the per-host seq check
NonCommitPasses(msg) ==
    /\ msg.type # "None"
    /\ msg.parse = "ok"
    /\ ~HasCommit(msg)
    /\ msg.hostname \in DOMAIN hosts => hosts[msg.hostname].seq < msg.seq

\* the step appends exactly one firehose record, for msg, at a new cursor
AppendsOne(msg) ==
    /\ cursor' = cursor + 1
    /\ \E c \in (DOMAIN firehose') \ DOMAIN firehose :
          /\ DOMAIN firehose' = DOMAIN firehose \cup {c}
          /\ firehose'[c].host = msg.hostname
          /\ firehose'[c].seq = msg.seq
          /\ firehose'[c].via = "ingest"
    /\ \A k \in DOMAIN firehose : firehose'[k] = firehose[k]

\* C23: an ingested non-commit event that passes the per-host seq check is
\* admitted without resolution: one firehose record at a newly allocated
\* cursor, hosts[host] = (seq, clamped time), queue and repos unchanged, and
\* the resolver changed by expire(did, event time) exactly for Identity
NonCommitAdmitted ==
    [][NonCommitPasses(lastOp'.msg) =>
          /\ AppendsOne(lastOp'.msg)
          /\ DOMAIN hosts' = DOMAIN hosts \cup {lastOp'.msg.hostname}
          /\ hosts'[lastOp'.msg.hostname] = ClampedRecord(lastOp'.msg)
          /\ \A h \in DOMAIN hosts \ {lastOp'.msg.hostname} : hosts'[h] = hosts[h]
          /\ UNCHANGED <<queue, repos>>
          /\ resolver' = IF lastOp'.msg.type = "Identity"
                         THEN Expire(resolver, lastOp'.msg.did, lastOp'.msg.time)
                         ELSE resolver]_vars

\* an Identity event was admitted and its expire left the DID pending
NonCommitAdmittedWitness ==
    /\ lastOp.msg.type = "Identity"
    /\ ~lastOp.drop
    /\ lastOp.msg.did \in resolver.inflight
    /\ \E c \in DOMAIN firehose :
          firehose[c].host = lastOp.msg.hostname /\ firehose[c].seq = lastOp.msg.seq
    /\ hosts[lastOp.msg.hostname].time > lastOp.msg.time

\* the records that scan_did appended
ScanRecordKeys == {k \in DOMAIN firehose : firehose[k].via = "scan"}

\* C24: scan_did replays the queued frames of a DID in insertion order: of
\* two replayed frames of one host the one with the smaller upstream seq
\* has the smaller relay cursor
ReplayInOrder == SeqOrdered(ScanRecordKeys)

\* the queue record k fails the endpoint or the signature check of a replay
\* with the given (pds, key)
StaticFail(k, entry) ==
    \/ IsSome(entry.pds) /\ KeyHost(k) # Unwrap(entry.pds)
    \/ VerifyCommitSig(queue[k], entry.key) # "valid"

\* the step appended a firehose record for the queue record k
Replayed(k) ==
    \E c \in DOMAIN firehose' \ DOMAIN firehose :
        /\ firehose'[c].via = "scan"
        /\ firehose'[c].host = KeyHost(k)
        /\ firehose'[c].seq = queue[k].seq

\* scan_did(d) of this step against the queue before it
ScanDropsAlone(d) ==
    LET ks == ScanPrefix(queue, d)
        entry == Unwrap(Resolve(resolver', plcKeys', d).res)
        new == DOMAIN firehose' \ DOMAIN firehose
    IN  /\ \A k \in ks : StaticFail(k, entry) => ~Replayed(k)
        /\ \A k \in ks : (~StaticFail(k, entry) /\ queue[k].type = "Sync") => Replayed(k)
        /\ \A k \in ks : (ks = {k} /\ RevCheckFails(M, queue[k])) => ~Replayed(k)
        /\ \A c \in new : \E k \in ks :
              /\ ~StaticFail(k, entry)
              /\ firehose'[c].host = KeyHost(k)
              /\ firehose'[c].seq = queue[k].seq
        /\ Cardinality(new) <= Cardinality({k \in ks : ~StaticFail(k, entry)})
        /\ cursor' = cursor + Cardinality(new)
        /\ \A k \in DOMAIN firehose : firehose'[k] = firehose[k]
        /\ new = {} => repos' = repos
        /\ DOMAIN queue' = DOMAIN queue \ ks
        /\ hosts' = hosts

BatchDids(resp) == {resp.bytes.rows[i].did : i \in 1..Len(resp.bytes.rows)}

\* the export requests outstanding in a resolver value
ExportFutures(r) == {g \in BagToSet(r.futures) : g.kind = "Export"}

\* what processing the page `resp` of the export request f does to the
\* resolver: the batch DIDs that were inflight are returned once each and leave
\* inflight; a full page issues the next export request and returns nothing
\* else; a short page also returns and removes every other inflight did:plc
\* DID and issues no request; did:web DIDs outside the batch stay inflight
BatchDrains(f, resp) ==
    LET p == PollExport(resolver, plcKeys, plcLast, f, resp)
        hit == BatchDids(resp) \cap resolver.inflight
        rest == {d \in resolver.inflight \ hit : StartsWith(d, "did:plc:")}
        web == {d \in resolver.inflight \ hit : StartsWith(d, "did:web:")}
        ret == {p.dids[i] : i \in 1..Len(p.dids)}
    IN  /\ Len(p.dids) = Cardinality(ret)
        /\ hit \subseteq ret
        /\ web \subseteq p.r.inflight
        /\ p.r.inflight = resolver.inflight \ ret
        /\ IF resp.bytes.count = PLC_PAGE
           THEN /\ ret = hit
                /\ ExportFutures(p.r) # {}
                /\ p.r.after = None
           ELSE /\ ret = hit \cup rest
                /\ ExportFutures(p.r) = ExportFutures(resolver) \ {f}
                    \/ CopiesIn(f, resolver.futures) > 1

\* C26: in every reachable state, every successful page that can answer an
\* outstanding export request is processed as described: batch DIDs that were
\* inflight are removed and returned, a full page (PLC_PAGE lines) re-issues
\* the export and returns no other DID, a short page drains exactly the
\* remaining inflight did:plc DIDs and leaves did:web DIDs inflight.
ExportBatchDrains ==
    \A f \in ExportFutures(resolver) :
        \A resp \in ExportResponses(ExportBatches(f.after, PlcDids, AllBodies)) :
            resp.ok => BatchDrains(f, resp)

\* C26 witness: with exports enabled, a short page that does not name the
\* inflight did:plc DID was processed while a did:web DID was inflight: the
\* former was drained, returned and scanned, the latter is still inflight.
ExportBatchDrainsWitness ==
    /\ DO_PLC_EXPORT
    /\ lastOp.received = {}
    /\ DidP \in lastOp.scanned
    /\ DidP \notin resolver.inflight
    /\ DidW \in resolver.inflight
    /\ ExportFutures(resolver) = {}
    /\ IsSome(resolver.after)

\* ---------------------------------------------------------------- C27
\* the worker is in its loop
InLoop(w) == workers[w].pc \in {"top", "inner"}

\* the worker has left its loop (shutdown or a panic)
OutOfLoop(w) == workers[w].pc \in {"stopped", "panicked"}

\* a step of worker w: seq never decreases; start-up takes the last key of
\* the firehose; afterwards seq changes only in a broadcast, to the smallest
\* key above it, no key is skipped, every broadcast is of a new key, and
\* every occupied slot is passed to send
BroadcastStep(w) ==
    LET old == workers[w]
        new == workers'[w]
    IN  /\ new.seq >= old.seq
        /\ (old.pc = "new" /\ new.pc # "new") => new.seq = StartCursor(firehose)
        /\ (old.pc # "new" /\ new.seq # old.seq) =>
              /\ lastPub'.op = "send" /\ lastPub'.w = w
              /\ new.seq \in DOMAIN firehose
              /\ \A k \in DOMAIN firehose : ~(old.seq < k /\ k < new.seq)
        /\ (lastPub'.op = "send" /\ lastPub'.w = w /\ pubVars' # pubVars) =>
              /\ new.seq > old.seq
              /\ Len(new.connections) = Len(old.connections)
              /\ \A i \in 1..Len(old.connections) :
                     new.connections[i] = SendSlot(old.connections[i])

\* seq is a key of the firehose, or the default of an empty firehose
SeqIsKey(w) == workers[w].seq = 0 \/ workers[w].seq \in DOMAIN firehose

\* C27: the worker broadcasts the log in order and exactly once, while the
\* validator appends: seq never decreases and is the key of the entry broadcast
\* last (at start-up the last key of the firehose, 0 when it is empty); each
\* broadcast is of the smallest key above seq and reaches every occupied
\* slot; and while the worker stays in its loop every entry above its seq is
\* eventually broadcast.
BroadcastInOrderOnce ==
    /\ [][\A w \in OneWorker : BroadcastStep(w)]_vars
    /\ [](\A w \in OneWorker : SeqIsKey(w))
    /\ \A w \in OneWorker : \A k \in 1..MaxCursor :
          (InLoop(w) /\ k \in DOMAIN firehose /\ workers[w].seq < k)
              ~> (workers[w].seq >= k \/ OutOfLoop(w))

\* C27 witness: the worker has just broadcast key 2 of a two-entry firehose
\* to an occupied slot, which buffered the frame.
BroadcastInOrderOnceWitness ==
    /\ lastPub.op = "send"
    /\ lastPub.w = 1
    /\ DOMAIN firehose = {1, 2}
    /\ workers[1].seq = 2
    /\ \E i \in 1..Len(workers[1].connections) :
          /\ IsSome(workers[1].connections[i])
          /\ Unwrap(workers[1].connections[i]).buf = 1

\* ---------------------------------------------------------------- C28
\* every occupied slot i has exactly the registration (its socket, token i),
\* and every registration is that of the occupied slot its token names
SlotsRegistered(w) ==
    LET wk == workers[w]
        conns == wk.connections
    IN  /\ \A i \in 1..Len(conns) :
              IsSome(conns[i]) =>
                  {e \in wk.poll : e.fd = Unwrap(conns[i]).fd \/ e.token = i - 1}
                      = {[fd |-> Unwrap(conns[i]).fd, token |-> i - 1]}
        /\ \A e \in wk.poll :
              /\ e.token + 1 \in 1..Len(conns)
              /\ IsSome(conns[e.token + 1])
              /\ Unwrap(conns[e.token + 1]).fd = e.fd

\* a Connect command that changes the worker stores the connection in the
\* lowest hole, or past the end when there is none, registers its socket under
\* that index, and leaves every other slot as it was
ConnectPlaces(w) ==
    LET old == workers[w]
        new == workers'[w]
        holes == {i \in 1..Len(old.connections) : ~IsSome(old.connections[i])}
        at == IF holes = {} THEN Len(old.connections) + 1
              ELSE CHOOSE i \in holes : \A j \in holes : i <= j
    IN  (lastPub'.op = "command" /\ lastPub'.w = w /\ new # old) =>
            /\ Len(new.connections) = Max(Len(old.connections), at)
            /\ IsSome(new.connections[at])
            /\ \A i \in 1..Len(old.connections) :
                   i # at => new.connections[i] = old.connections[i]
            /\ Unwrap(new.connections[at]).fd \notin SlotFds(old)
            /\ new.poll = old.poll \cup
                   {[fd |-> Unwrap(new.connections[at]).fd, token |-> at - 1]}

\* a readiness event with token t is handled by the slot t alone, which
\* holds the connection whose socket is registered under t
EventDelivered(w) ==
    LET old == workers[w]
        new == workers'[w]
    IN  (lastPub'.op = "poll" /\ lastPub'.w = w /\ pubVars' # pubVars) =>
            \A t \in DOMAIN lastPub'.outs :
                /\ \E e \in old.poll :
                       e.token = t /\ e.fd = Unwrap(old.connections[t + 1]).fd
                /\ \A i \in 1..Len(old.connections) :
                       i # t + 1 => new.connections[i] = old.connections[i]

\* C28: in every reachable worker state each occupied slot i is registered
\* under token i and no other token and no hole has a registration; a Connect
\* command fills the lowest hole (or appends) without moving or replacing a
\* connection; a readiness event with token i reaches only the connection
\* registered at i.
SlotTokenAgreement ==
    /\ [](\A w \in Workers : SlotsRegistered(w))
    /\ [][\A w \in OneWorker : ConnectPlaces(w) /\ EventDelivered(w)]_vars

\* C28 witness: after the last broadcast the connection of slot 0 was
\* closed and a Connect command has just filled that hole, while the older
\* connection of slot 1 is still in its place.
SlotTokenAgreementWitness ==
    /\ lastPub.op = "command"
    /\ workers[1].seq = 2
    /\ Len(workers[1].connections) = 2
    /\ IsSome(workers[1].connections[1])
    /\ IsSome(workers[1].connections[2])
    /\ Unwrap(workers[1].connections[1]).cursor = 2
    /\ Unwrap(workers[1].connections[1]).buf = 0
    /\ Unwrap(workers[1].connections[2]).buf = 1
    /\ workers[1].poll = {[fd |-> Unwrap(workers[1].connections[i]).fd, token |-> i - 1] :
                             i \in 1..2}

====
